---- MODULE Spec2Model ----
(***************************************************************************)
(* Model of the CTL tutoring chatbot (app.py, myollama.py).                *)
(*                                                                         *)
(* Text is a sequence of one-character strings; the canned sentences of    *)
(* the program are kept as one-element sequences holding the whole         *)
(* sentence, so that every piece of text has the same shape and f-strings  *)
(* are concatenations.  Distances are fixed-point numbers in tenths, so    *)
(* the threshold 1.1 is 11.                                                *)
(***************************************************************************)
EXTENDS Integers, Sequences, FiniteSets, TLC

(***************************************************************************)
(* Program constants: top_k of get_context, the threshold 1.1 in tenths,   *)
(* and the distance FLT_MAX that the index reports for a missing result    *)
(* (scaled down: any value far above every real distance).                 *)
(***************************************************************************)
TopK == 5
Threshold == 11
FltMax == 1000000

(***************************************************************************)
(* Bounds of the model.  The knowledge base holds either MinChunks (fewer   *)
(* than top_k) or MaxChunks chunks.                                        *)
(***************************************************************************)
NumUsers == 2
NumWorkers == 2
MaxRequests == 4
MaxChunks == 6
MaxLocal == 2

MinChunks == TopK - 1
MaxDistLen == 3
MaxRecords == 3
MaxLines == 2

Users == 1..NumUsers
Workers == 1..NumWorkers


(***************************************************************************)
(* Python helpers on text: str.lower, str.strip, substring test.           *)
(***************************************************************************)
UpperCase == <<"A","B","C","D","E","F","G","H","I","J","K","L","M",
               "N","O","P","Q","R","S","T","U","V","W","X","Y","Z">>
LowerCase == <<"a","b","c","d","e","f","g","h","i","j","k","l","m",
               "n","o","p","q","r","s","t","u","v","w","x","y","z">>
Digits == {"0","1","2","3","4","5","6","7","8","9"}
Whitespace == {" ", "\n", "\t", "\r"}

Range(s) == {s[i] : i \in 1..Len(s)}

LowerChar(c) ==
    IF \E i \in 1..26 : UpperCase[i] = c
      THEN LowerCase[CHOOSE i \in 1..26 : UpperCase[i] = c]
      ELSE c

Lower(text) == [i \in 1..Len(text) |-> LowerChar(text[i])]

RECURSIVE LStrip(_)
LStrip(text) ==
    IF text # <<>> /\ Head(text) \in Whitespace THEN LStrip(Tail(text)) ELSE text

RECURSIVE RStrip(_)
RStrip(text) ==
    IF text # <<>> /\ text[Len(text)] \in Whitespace
      THEN RStrip(SubSeq(text, 1, Len(text) - 1))
      ELSE text

Strip(text) == RStrip(LStrip(text))

Contains(hay, needle) ==
    \E i \in 0..(Len(hay) - Len(needle)) : SubSeq(hay, i + 1, i + Len(needle)) = needle

(***************************************************************************)
(* is_knox_email: re.match(r"^[A-Za-z0-9._%+-]+@knox\.edu$") on the        *)
(* stripped, lower-cased text.  The matcher consumes the longest run of    *)
(* class characters at the start and, backtracking over shorter runs,      *)
(* requires the literal tail to reach the end of the text.                 *)
(***************************************************************************)
LocalClass == Range(UpperCase) \cup Range(LowerCase) \cup Digits \cup {".", "_", "%", "+", "-"}
DomainLiteral == <<"@","k","n","o","x",".","e","d","u">>

RECURSIVE ClassRun(_)
ClassRun(text) ==
    IF text # <<>> /\ Head(text) \in LocalClass THEN 1 + ClassRun(Tail(text)) ELSE 0

RegexMatchUnescapedDot(s) ==
    \E n \in 1..ClassRun(s) :
        /\ Len(s) = n + Len(DomainLiteral)
        /\ \A j \in 1..Len(DomainLiteral) :
              \/ s[n + j] = DomainLiteral[j]
              \/ DomainLiteral[j] = "." /\ s[n + j] # "\n"

RegexMatch(s) ==
    \E n \in 1..ClassRun(s) :
        /\ Len(s) = n + Len(DomainLiteral)
        /\ SubSeq(s, n + 1, Len(s)) = DomainLiteral

is_knox_email(text) ==
    IF text = <<>> THEN FALSE ELSE RegexMatch(Lower(Strip(text)))

(***************************************************************************)
(* low_retrieval_confidence and the escalation gate of get_response.       *)
(***************************************************************************)
RECURSIVE Sum(_)
Sum(s) == IF s = <<>> THEN 0 ELSE Head(s) + Sum(Tail(s))

low_retrieval_confidence_ge(distances, threshold) ==
    IF distances = <<>> THEN TRUE
    ELSE Sum(distances) >= threshold * Len(distances)

low_retrieval_confidence(distances, threshold) ==
    IF distances = <<>> THEN TRUE
    ELSE Sum(distances) > threshold * Len(distances)

Marker == <<"o","u","t","s","i","d","e"," ","c","t","l","'","s"," ",
            "t","u","t","o","r","i","n","g"," ","i","n","f","o">>

bot_flagged_out_of_scope(reply) == Contains(Lower(reply), Marker)

trigger(reply, distances) ==
    bot_flagged_out_of_scope(reply) \/ low_retrieval_confidence(distances, Threshold)

(***************************************************************************)
(* Knowledge base, embedder and index (myollama.py).  The sentence encoder *)
(* is opaque; it is modelled as a deterministic map of a text to one       *)
(* integer coordinate (its length), so that the L2 distance between two    *)
(* texts is the square of the difference, in tenths.  Chunk i of the       *)
(* knowledge base is a text of ChunkLen(i) copies of its own word.         *)
(***************************************************************************)
ChunkWords == <<"c1", "c2", "c3", "c4", "c5", "c6", "c7", "c8", "c9">>
ChunkLen(i) == ((3 * i) % 7) + 1
ChunkText(i) == [j \in 1..ChunkLen(i) |-> ChunkWords[i]]

load_expanded_chunks(n) == [i \in 1..n |-> ChunkText(i)]

Embed(text) == Len(text)

build_index(chunkList) == [i \in 1..Len(chunkList) |-> Embed(chunkList[i])]

L2(a, b) == (a - b) * (a - b)

(* Python list indexing: 0-based, negative indices count from the end. *)
PyGet(list, i) == IF i < 0 THEN list[Len(list) + i + 1] ELSE list[i + 1]

RECURSIVE Join(_)
Join(texts) ==
    IF texts = <<>> THEN <<>>
    ELSE IF Len(texts) = 1 THEN texts[1]
    ELSE texts[1] \o <<"\n">> \o Join(Tail(texts))

(* Rank of entry i (0-based label) among the stored vectors for query q:   *)
(* the number of entries that are closer, ties going to the lower label.   *)
RankOf(idx, q, i) ==
    Cardinality({j \in 0..(Len(idx) - 1) :
        \/ L2(q, idx[j + 1]) < L2(q, idx[i + 1])
        \/ L2(q, idx[j + 1]) = L2(q, idx[i + 1]) /\ j < i})

LabelAt(idx, q, r) == CHOOSE i \in 0..(Len(idx) - 1) : RankOf(idx, q, i) = r - 1

(* IndexFlatL2.search of one query: always k labels and k distances; when  *)
(* the index holds fewer than k vectors the tail is label -1, distance     *)
(* FLT_MAX.                                                                *)
IndexSearch(idx, q, k) ==
    [D |-> [r \in 1..k |-> IF r <= Len(idx) THEN L2(q, idx[LabelAt(idx, q, r) + 1]) ELSE FltMax],
     I |-> [r \in 1..k |-> IF r <= Len(idx) THEN LabelAt(idx, q, r) ELSE -1]]

get_context(question, idx, chunkList, top_k) ==
    LET q == Embed(question)
        res == IndexSearch(idx, q, top_k)
    IN  [context |-> Join([r \in 1..Len(res.I) |-> PyGet(chunkList, res.I[r])]),
         distances |-> res.D,
         labels |-> res.I]

(***************************************************************************)
(* Canned texts of get_response and the inputs of the model.               *)
(***************************************************************************)
SystemPrompt == <<"You are an administrative assistant for the Knox College Center for Teaching and Learning (CTL). ...">>
Intro == <<"Hi! I'm the CTL tutoring assistant for Knox College. ... what's your Knox email so we can follow up if needed?\n(Example: yourname@knox.edu)">>
NeedEmail == <<"I just need your Knox email (like yourname@knox.edu) so we can follow up with you.\nCould you enter that first?">>
FixedApology == <<"I'm not completely sure about that - it may be outside what I know for CTL tutoring. I've flagged this so a staff member can follow up.">>
InternalServerError == <<"Internal Server Error">>

ConfirmMsg(email) ==
    <<"Thanks! I've got your email as ">> \o email \o <<".\n\nHow can I help you today? ...">>

UserContent(context, user_message) ==
    <<"Use this context to answer:\n">> \o context \o <<"\n\nQuestion: ">> \o user_message

SystemMsg == [role |-> "system", content |-> SystemPrompt]

(* Values of student_emails[user_id]: key missing, None, or a string. *)
KeyMissing == [py |-> "missing"]
None == [py |-> "None"]
Str(text) == [py |-> "str", s |-> text]

MsgHi == <<"h","i">>
MsgShort == <<"?">>
MsgEmail == <<" ","B","@","K","n","o","x",".","e","d","u">>
Messages == {MsgHi, MsgShort, MsgEmail}

ReplyPlain == <<"o","k">>
ReplyMarked == <<"N","o",".", " ","I","'","m"," ","n","o","t"," ","s","u","r","e",":"," ",
                 "O","u","t","s","i","d","e"," ","C","T","L","'","s"," ",
                 "t","u","t","o","r","i","n","g"," ","i","n","f","o",".">>
Replies == {ReplyPlain, ReplyMarked}

(***************************************************************************)
(* State.                                                                  *)
(*   chunks, index    knowledge base and index built at startup            *)
(*   conversations    user_id -> id of the message list (0: key missing)   *)
(*   lists            the message lists themselves, by id                  *)
(*   student_emails   user_id -> KeyMissing | None | Str(email)            *)
(*   pc, th           position and locals of each request being handled    *)
(*   tasks            background tasks whose response has been sent        *)
(*   logfile, clock   lines of escalations_log.jsonl; the UTC clock        *)
(*   nRequests, nTriggered, nReady  history counters                       *)
(*   fn               argument and result of a pure function under test    *)
(***************************************************************************)
VARIABLES chunks, index, conversations, lists, nextList, student_emails,
          pc, th, tasks, logfile, clock, nRequests, nTriggered, nReady, fn,
          file, jobs, loaded, lines

vars == <<chunks, index, conversations, lists, nextList, student_emails,
          pc, th, tasks, logfile, clock, nRequests, nTriggered, nReady, fn,
          file, jobs, loaded, lines>>

kb == <<chunks, index>>
sessions == <<conversations, lists, nextList, student_emails>>
ghosts == <<nRequests, nTriggered, nReady>>
disk == <<logfile, clock>>
logio == <<file, jobs, loaded, lines>>

MaxLists == 2 * NumUsers
NoList == 0
NoTask == <<>>

IdleLocals ==
    [user_id |-> 0, message |-> <<>>, hadSession |-> FALSE, emailAtArrival |-> KeyMissing,
     messages |-> NoList, calls |-> <<>>, seen |-> <<>>,
     reply |-> <<>>, distances |-> <<>>, context |-> <<>>, labels |-> <<>>,
     ready |-> FALSE, gated |-> FALSE, flagged |-> FALSE, trigger |-> FALSE,
     task |-> NoTask, response |-> <<>>]

InitProgram ==
    /\ \E n \in {MinChunks, MaxChunks} :
          /\ chunks = load_expanded_chunks(n)
          /\ index = build_index(load_expanded_chunks(n))
    /\ conversations = [u \in Users |-> NoList]
    /\ lists = [i \in 1..MaxLists |-> <<>>]
    /\ nextList = 1
    /\ student_emails = [u \in Users |-> KeyMissing]
    /\ pc = [w \in Workers |-> "idle"]
    /\ th = [w \in Workers |-> IdleLocals]
    /\ tasks = <<>>
    /\ logfile = <<>>
    /\ clock = 0
    /\ nRequests = 0
    /\ nTriggered = 0
    /\ nReady = [u \in Users |-> 0]

NoFn == [f |-> "none", done |-> TRUE, text |-> <<>>, reply |-> <<>>,
         distances |-> <<>>, result |-> FALSE]

(* The log file of the character-level model of the log functions: absent  *)
(* until a call opens it; loaded is the result of the last read-back.      *)
NoFile == [exists |-> FALSE, data |-> <<>>]
EmptyFile == [exists |-> TRUE, data |-> <<>>]
Returned(records) == [raised |-> "", records |-> records]

NotLoaded == [done |-> FALSE, at |-> 0, result |-> Returned(<<>>)]

InitLogIdle ==
    /\ file = NoFile
    /\ jobs = <<>>
    /\ loaded = NotLoaded
    /\ lines = <<>>

Init == InitProgram /\ fn = NoFn /\ InitLogIdle

(***************************************************************************)
(* POST /chat: one request is handled by one worker, statement by          *)
(* statement.  The design assumes that no two requests of the same user    *)
(* are in flight at once; requests of different users interleave freely.   *)
(* Workers and user-ids are interchangeable, so a request takes the lowest *)
(* idle worker and user-ids make their first request in increasing order.  *)
(***************************************************************************)
InFlight(u) == \E w \in Workers : pc[w] # "idle" /\ th[w].user_id = u

Receive(w, u, m) ==
    /\ pc[w] = "idle"
    /\ \A v \in Workers : v < w => pc[v] # "idle"
    /\ \A v \in Users : v < u => conversations[v] # NoList
    /\ nRequests < MaxRequests
    /\ ~InFlight(u)
    /\ th' = [th EXCEPT ![w] = [IdleLocals EXCEPT
                 !.user_id = u, !.message = m,
                 !.hadSession = (conversations[u] # NoList),
                 !.emailAtArrival = student_emails[u]]]
    /\ pc' = [pc EXCEPT ![w] = "check"]
    /\ nRequests' = nRequests + 1
    /\ UNCHANGED <<kb, logio, sessions, tasks, disk, nTriggered, nReady, fn>>

(* app.py 113: if user_id not in conversations *)
CheckSession(w) ==
    /\ pc[w] = "check"
    /\ pc' = [pc EXCEPT ![w] =
                 IF conversations[th[w].user_id] = NoList THEN "create" ELSE "email"]
    /\ UNCHANGED <<kb, logio, sessions, th, tasks, disk, ghosts, fn>>

CreateSessionSharedList(w) ==
    /\ pc[w] = "create"
    /\ nextList <= MaxLists
    /\ lists' = [lists EXCEPT ![1] = <<SystemMsg>>]
    /\ conversations' = [conversations EXCEPT ![th[w].user_id] = 1]
    /\ nextList' = nextList + 1
    /\ pc' = [pc EXCEPT ![w] = "initemail"]
    /\ UNCHANGED <<kb, logio, student_emails, th, tasks, disk, ghosts, fn>>

(* app.py 114-140: conversations[user_id] = [system message] *)
CreateSession(w) ==
    /\ pc[w] = "create"
    /\ nextList <= MaxLists
    /\ lists' = [lists EXCEPT ![nextList] = <<SystemMsg>>]
    /\ conversations' = [conversations EXCEPT ![th[w].user_id] = nextList]
    /\ nextList' = nextList + 1
    /\ pc' = [pc EXCEPT ![w] = "initemail"]
    /\ UNCHANGED <<kb, logio, student_emails, th, tasks, disk, ghosts, fn>>

InitEmailNoReturn(w) ==
    /\ pc[w] = "initemail"
    /\ student_emails' = [student_emails EXCEPT ![th[w].user_id] = None]
    /\ th' = [th EXCEPT ![w].response = Intro]
    /\ pc' = [pc EXCEPT ![w] = "email"]
    /\ UNCHANGED <<kb, logio, conversations, lists, nextList, tasks, disk, ghosts, fn>>

(* app.py 141-150: student_emails[user_id] = None; return the greeting *)
InitEmail(w) ==
    /\ pc[w] = "initemail"
    /\ student_emails' = [student_emails EXCEPT ![th[w].user_id] = None]
    /\ th' = [th EXCEPT ![w].response = Intro]
    /\ pc' = [pc EXCEPT ![w] = "respond"]
    /\ UNCHANGED <<kb, logio, conversations, lists, nextList, tasks, disk, ghosts, fn>>

CheckEmailRecordsMessage(w) ==
    /\ pc[w] = "email"
    /\ LET e == student_emails[th[w].user_id] IN
         IF e = KeyMissing
           THEN /\ th' = [th EXCEPT ![w].response = InternalServerError]
                /\ pc' = [pc EXCEPT ![w] = "respond"]
                /\ lists' = lists
         ELSE IF e = None
           THEN IF is_knox_email(th[w].message)
                  THEN /\ pc' = [pc EXCEPT ![w] = "store_email"]
                       /\ th' = th
                       /\ lists' = lists
                  ELSE /\ th' = [th EXCEPT ![w].response = NeedEmail]
                       /\ pc' = [pc EXCEPT ![w] = "respond"]
                       /\ lists' = [lists EXCEPT ![conversations[th[w].user_id]] =
                              Append(@, [role |-> "user", content |-> th[w].message])]
           ELSE /\ pc' = [pc EXCEPT ![w] = "chat_begin"]
                /\ th' = th
                /\ lists' = lists
    /\ UNCHANGED <<kb, logio, conversations, nextList, student_emails, tasks, disk, ghosts, fn>>

CheckEmailAcceptsAll(w) ==
    /\ pc[w] = "email"
    /\ LET e == student_emails[th[w].user_id] IN
         IF e = KeyMissing
           THEN /\ th' = [th EXCEPT ![w].response = InternalServerError]
                /\ pc' = [pc EXCEPT ![w] = "respond"]
         ELSE IF e = None
           THEN /\ pc' = [pc EXCEPT ![w] = "store_email"]
                /\ th' = th
           ELSE /\ pc' = [pc EXCEPT ![w] = "chat_begin"]
                /\ th' = th
    /\ UNCHANGED <<kb, logio, sessions, tasks, disk, ghosts, fn>>

(* app.py 153-154, 163-169: is the email still missing, and is this it? *)
CheckEmail(w) ==
    /\ pc[w] = "email"
    /\ LET e == student_emails[th[w].user_id] IN
         IF e = KeyMissing
           THEN /\ th' = [th EXCEPT ![w].response = InternalServerError]
                /\ pc' = [pc EXCEPT ![w] = "respond"]
         ELSE IF e = None
           THEN IF is_knox_email(th[w].message)
                  THEN /\ pc' = [pc EXCEPT ![w] = "store_email"]
                       /\ th' = th
                  ELSE /\ th' = [th EXCEPT ![w].response = NeedEmail]
                       /\ pc' = [pc EXCEPT ![w] = "respond"]
           ELSE /\ pc' = [pc EXCEPT ![w] = "chat_begin"]
                /\ th' = th
    /\ UNCHANGED <<kb, logio, sessions, tasks, disk, ghosts, fn>>

StoredEmailUnstripped(message) == Str(message)

StoredEmail(message) == Str(Strip(message))

StoreEmailNoReturn(w) ==
    /\ pc[w] = "store_email"
    /\ student_emails' = [student_emails EXCEPT ![th[w].user_id] = StoredEmail(th[w].message)]
    /\ th' = [th EXCEPT ![w].response = ConfirmMsg(StoredEmail(th[w].message).s)]
    /\ nReady' = [nReady EXCEPT ![th[w].user_id] = @ + 1]
    /\ pc' = [pc EXCEPT ![w] = "chat_begin"]
    /\ UNCHANGED <<kb, logio, conversations, lists, nextList, tasks, disk, nRequests, nTriggered, fn>>

(* app.py 156-162: store the stripped message, confirm *)
StoreEmail(w) ==
    /\ pc[w] = "store_email"
    /\ student_emails' = [student_emails EXCEPT ![th[w].user_id] = StoredEmail(th[w].message)]
    /\ th' = [th EXCEPT ![w].response = ConfirmMsg(StoredEmail(th[w].message).s)]
    /\ nReady' = [nReady EXCEPT ![th[w].user_id] = @ + 1]
    /\ pc' = [pc EXCEPT ![w] = "respond"]
    /\ UNCHANGED <<kb, logio, conversations, lists, nextList, tasks, disk, nRequests, nTriggered, fn>>

(* app.py 172-176, myollama.py 26-31: retrieval, then the user message is *)
(* appended to the session's list                                          *)
ChatBegin(w) ==
    /\ pc[w] = "chat_begin"
    /\ LET l == conversations[th[w].user_id]
           c == get_context(th[w].message, index, chunks, TopK)
       IN  /\ Len(lists[l]) < 1 + 2 * MaxRequests
           /\ lists' = [lists EXCEPT ![l] =
                  Append(@, [role |-> "user", content |-> UserContent(c.context, th[w].message)])]
           /\ th' = [th EXCEPT ![w].messages = l, ![w].context = c.context,
                                ![w].distances = c.distances, ![w].labels = c.labels,
                                ![w].calls = Append(@, "search"), ![w].ready = TRUE]
    /\ pc' = [pc EXCEPT ![w] = "generate"]
    /\ UNCHANGED <<kb, logio, conversations, nextList, student_emails, tasks, disk, ghosts, fn>>

(* myollama.py 33-34: the generation call answers with some reply *)
Generate(w, r) ==
    /\ pc[w] = "generate"
    /\ th' = [th EXCEPT ![w].reply = r, ![w].seen = lists[th[w].messages],
                         ![w].calls = Append(@, "generate")]
    /\ pc' = [pc EXCEPT ![w] = "append_reply"]
    /\ UNCHANGED <<kb, logio, sessions, tasks, disk, ghosts, fn>>

(* myollama.py 33: the generation call raises; the exception leaves        *)
(* chatbot and get_response and the server answers 500                     *)
GenerateFail(w) ==
    /\ pc[w] = "generate"
    /\ th' = [th EXCEPT ![w].seen = lists[th[w].messages],
                         ![w].calls = Append(@, "generate"),
                         ![w].response = InternalServerError]
    /\ pc' = [pc EXCEPT ![w] = "respond"]
    /\ UNCHANGED <<kb, logio, sessions, tasks, disk, ghosts, fn>>

AppendReplyShown(w) ==
    /\ pc[w] = "append_reply"
    /\ lists' = [lists EXCEPT ![th[w].messages] =
                    Append(@, [role |-> "assistant",
                               content |-> IF bot_flagged_out_of_scope(th[w].reply)
                                             THEN FixedApology ELSE th[w].reply])]
    /\ pc' = [pc EXCEPT ![w] = "gate"]
    /\ UNCHANGED <<kb, logio, conversations, nextList, student_emails, th, tasks, disk, ghosts, fn>>

(* myollama.py 36-37: the reply is appended to the session's list *)
AppendReply(w) ==
    /\ pc[w] = "append_reply"
    /\ lists' = [lists EXCEPT ![th[w].messages] =
                    Append(@, [role |-> "assistant", content |-> th[w].reply])]
    /\ pc' = [pc EXCEPT ![w] = "gate"]
    /\ UNCHANGED <<kb, logio, conversations, nextList, student_emails, th, tasks, disk, ghosts, fn>>

ShownReplyAlwaysApology(reply, trig, flagged) ==
    IF trig THEN FixedApology ELSE reply

ShownReplyNoRewrite(reply, trig, flagged) == reply

ShownReply(reply, trig, flagged) ==
    IF trig /\ flagged THEN FixedApology ELSE reply

(* app.py 187-196: the arguments of the background task; convo is the      *)
(* session's list itself, not a copy of it (snapshot only records what the *)
(* list held when the task was scheduled)                                  *)
EscalationTask(w) ==
    [user_id |-> th[w].user_id, question |-> th[w].message, reply |-> th[w].reply,
     context |-> th[w].context, distances |-> th[w].distances,
     convo |-> conversations[th[w].user_id],
     snapshot |-> lists[conversations[th[w].user_id]],
     student_email |-> student_emails[th[w].user_id]]

(* app.py 179-204: the gate, the scheduling of the log task, the rewrite *)
Gate(w) ==
    /\ pc[w] = "gate"
    /\ LET flagged == bot_flagged_out_of_scope(th[w].reply)
           trig == trigger(th[w].reply, th[w].distances)
       IN  /\ th' = [th EXCEPT ![w].gated = TRUE,
                                ![w].flagged = flagged, ![w].trigger = trig,
                                ![w].task = IF trig THEN <<EscalationTask(w)>> ELSE NoTask,
                                ![w].response = ShownReply(th[w].reply, trig, flagged)]
           /\ nTriggered' = nTriggered + (IF trig THEN 1 ELSE 0)
    /\ pc' = [pc EXCEPT ![w] = "respond"]
    /\ UNCHANGED <<kb, logio, sessions, tasks, disk, nRequests, nReady, fn>>

RespondDropsTasks(w) ==
    /\ pc[w] = "respond"
    /\ tasks' = tasks
    /\ th' = [th EXCEPT ![w] = IdleLocals]
    /\ pc' = [pc EXCEPT ![w] = "idle"]
    /\ UNCHANGED <<kb, logio, sessions, disk, ghosts, fn>>

(* The response is sent; the background tasks of the request are released *)
Respond(w) ==
    /\ pc[w] = "respond"
    /\ tasks' = tasks \o th[w].task
    /\ th' = [th EXCEPT ![w] = IdleLocals]
    /\ pc' = [pc EXCEPT ![w] = "idle"]
    /\ UNCHANGED <<kb, logio, sessions, disk, ghosts, fn>>

(***************************************************************************)
(* save_escalation_to_file, run as a background task: the payload is built *)
(* and serialised when the task runs.                                      *)
(***************************************************************************)
RemoveAt(s, i) == SubSeq(s, 1, i - 1) \o SubSeq(s, i + 1, Len(s))

Payload(t, ts) ==
    [timestamp |-> ts, user_id |-> t.user_id, student_email |-> t.student_email,
     question |-> t.question, reply |-> t.reply, context |-> t.context,
     distances |-> t.distances,
     conversation |-> lists[t.convo]]

save_escalation_to_file(i) ==
    /\ i \in 1..Len(tasks)
    /\ logfile' = Append(logfile, Payload(tasks[i], clock))
    /\ clock' = clock + 1
    /\ tasks' = RemoveAt(tasks, i)
    /\ UNCHANGED <<kb, logio, sessions, pc, th, ghosts, fn>>

Next ==
    \/ \E w \in Workers, u \in Users, m \in Messages : Receive(w, u, m)
    \/ \E w \in Workers : CheckSession(w)
    \/ \E w \in Workers : CreateSession(w)
    \/ \E w \in Workers : InitEmail(w)
    \/ \E w \in Workers : CheckEmail(w)
    \/ \E w \in Workers : StoreEmail(w)
    \/ \E w \in Workers : ChatBegin(w)
    \/ \E w \in Workers, r \in Replies : Generate(w, r)
    \/ \E w \in Workers : GenerateFail(w)
    \/ \E w \in Workers : AppendReply(w)
    \/ \E w \in Workers : Gate(w)
    \/ \E w \in Workers : Respond(w)
    \/ \E i \in 1..Len(tasks) : save_escalation_to_file(i)

Spec == Init /\ [][Next]_vars

(***************************************************************************)
(* The same handler when requests of one user-id may be in flight at once: *)
(* the endpoint is a plain function, which the framework runs on a thread  *)
(* of its pool for each request, and the code takes no lock on the session *)
(* (app.py 107-113).                                                       *)
(***************************************************************************)
ReceiveAnyUser(w, u, m) ==
    /\ pc[w] = "idle"
    /\ \A v \in Workers : v < w => pc[v] # "idle"
    /\ \A v \in Users : v < u => conversations[v] # NoList \/ InFlight(v)
    /\ nRequests < MaxRequests
    /\ th' = [th EXCEPT ![w] = [IdleLocals EXCEPT
                 !.user_id = u, !.message = m,
                 !.hadSession = (conversations[u] # NoList),
                 !.emailAtArrival = student_emails[u]]]
    /\ pc' = [pc EXCEPT ![w] = "check"]
    /\ nRequests' = nRequests + 1
    /\ UNCHANGED <<kb, logio, sessions, tasks, disk, nTriggered, nReady, fn>>

NextConc ==
    \/ \E w \in Workers, u \in Users, m \in Messages : ReceiveAnyUser(w, u, m)
    \/ \E w \in Workers : CheckSession(w)
    \/ \E w \in Workers : CreateSession(w)
    \/ \E w \in Workers : InitEmail(w)
    \/ \E w \in Workers : CheckEmail(w)
    \/ \E w \in Workers : StoreEmail(w)
    \/ \E w \in Workers : ChatBegin(w)
    \/ \E w \in Workers, r \in Replies : Generate(w, r)
    \/ \E w \in Workers : GenerateFail(w)
    \/ \E w \in Workers : AppendReply(w)
    \/ \E w \in Workers : Gate(w)
    \/ \E w \in Workers : Respond(w)
    \/ \E i \in 1..Len(tasks) : save_escalation_to_file(i)

SpecConc == Init /\ [][NextConc]_vars

(***************************************************************************)
(* The pure functions on their own: an input is drawn at the start and the *)
(* function is applied to it once.                                         *)
(***************************************************************************)
SeqsUpTo(S, n) == UNION {[1..k -> S] : k \in 0..n}

LocalAlphabet == {"a", "Z", "9", ".", "%", "_", "!", " ", "@"}
Leads == {<<>>, <<" ">>, <<"\n", "\t">>}
Trails == {<<>>, <<" ">>, <<"\r", "\n">>, <<"x">>, <<" ", "x">>}
Domains ==
    { <<"@","k","n","o","x",".","e","d","u">>,
      <<"@","K","N","O","X",".","E","D","U">>,
      <<"@","K","n","o","x",".","e","d","u">>,
      <<"@","k","n","o","x","x","e","d","u">>,
      <<"@","k","n","o","x",".","e","d","u",".","c","o">>,
      <<"@","x","k","n","o","x",".","e","d","u">>,
      <<"@","x",".","k","n","o","x",".","e","d","u">>,
      <<"@","k","n","o","x",".","e","d">>,
      <<"@","k","n","o","x"," ",".","e","d","u">>,
      <<"k","n","o","x",".","e","d","u">>,
      <<"@","g","m","a","i","l",".","c","o","m">>,
      <<>> }

EmailInputs ==
    {l \o loc \o d \o t : l \in Leads, loc \in SeqsUpTo(LocalAlphabet, MaxLocal),
                           d \in Domains, t \in Trails}

ReplyUpper == <<"O","U","T","S","I","D","E"," ","C","T","L","'","S"," ",
                "T","U","T","O","R","I","N","G"," ","I","N","F","O">>
ReplyNearMiss == <<"o","u","t","s","i","d","e"," ","c","t","l","s"," ",
                   "t","u","t","o","r","i","n","g"," ","i","n","f","o">>
ReplyCutShort == SubSeq(Marker, 1, Len(Marker) - 1)
GateReplies == {<<>>, ReplyPlain, ReplyMarked, Marker, ReplyUpper, ReplyNearMiss, ReplyCutShort}
DistVals == {0, 10, 11, 12, FltMax}
GateDistances == SeqsUpTo(DistVals, MaxDistLen)

FnIn(name, text, reply, distances) ==
    [f |-> name, done |-> FALSE, text |-> text, reply |-> reply,
     distances |-> distances, result |-> FALSE]

InitFn ==
    /\ InitProgram
    /\ InitLogIdle
    /\ \/ \E t \in EmailInputs : fn = FnIn("is_knox_email", t, <<>>, <<>>)
       \/ \E r \in GateReplies, d \in GateDistances : fn = FnIn("trigger", <<>>, r, d)

ApplyIsKnoxEmail ==
    /\ fn.f = "is_knox_email" /\ ~fn.done
    /\ fn' = [fn EXCEPT !.done = TRUE, !.result = is_knox_email(fn.text)]
    /\ UNCHANGED <<kb, logio, sessions, pc, th, tasks, disk, ghosts>>

ApplyTrigger ==
    /\ fn.f = "trigger" /\ ~fn.done
    /\ fn' = [fn EXCEPT !.done = TRUE, !.result = trigger(fn.reply, fn.distances)]
    /\ UNCHANGED <<kb, logio, sessions, pc, th, tasks, disk, ghosts>>

NextFn == ApplyIsKnoxEmail \/ ApplyTrigger

SpecFn == InitFn /\ [][NextFn]_vars

(***************************************************************************)
(* The escalation log as a text file (app.py 37-76).  Python values that   *)
(* json handles are tagged records: None, Str(text), Float(x), Bool(b),    *)
(* List(items), Dict(keys, values), a dict keeping its insertion order.    *)
(* A file is a sequence of characters; "U+00E9" stands for one non-ASCII   *)
(* character and "0xFF" for one byte that is not valid UTF-8.              *)
(***************************************************************************)
Float(x) == [py |-> "float", x |-> x]
Bool(b) == [py |-> "bool", b |-> b]
List(items) == [py |-> "list", items |-> items]
Dict(keys, values) == [py |-> "dict", keys |-> keys, values |-> values]

NonAscii == "U+00E9"
Undecodable == "0xFF"
DigitChars == <<"0", "1", "2", "3", "4", "5", "6", "7", "8", "9">>

RECURSIVE NumText(_)
NumText(n) ==
    IF n < 10 THEN <<DigitChars[n + 1]>>
    ELSE NumText(n \div 10) \o <<DigitChars[(n % 10) + 1]>>

EscapeCharRawNewline(c) ==
    CASE c = "\"" -> <<"\\", "\"">>
      [] c = "\\" -> <<"\\", "\\">>
      [] c = "\n" -> <<"\n">>
      [] c = "\r" -> <<"\\", "r">>
      [] c = "\t" -> <<"\\", "t">>
      [] c = NonAscii -> <<"\\", "u", "0", "0", "e", "9">>
      [] OTHER -> <<c>>

(* json.dumps of one character of a string (ensure_ascii is the default) *)
EscapeChar(c) ==
    CASE c = "\"" -> <<"\\", "\"">>
      [] c = "\\" -> <<"\\", "\\">>
      [] c = "\n" -> <<"\\", "n">>
      [] c = "\r" -> <<"\\", "r">>
      [] c = "\t" -> <<"\\", "t">>
      [] c = NonAscii -> <<"\\", "u", "0", "0", "e", "9">>
      [] OTHER -> <<c>>

RECURSIVE Escape(_)
Escape(text) ==
    IF text = <<>> THEN <<>> ELSE EscapeChar(Head(text)) \o Escape(Tail(text))

RECURSIVE JsonDumps(_), DumpItems(_), DumpMembers(_, _)
(* app.py 55: json.dumps(payload), separators ", " and ": " *)
JsonDumps(v) ==
    CASE v.py = "None" -> <<"n", "u", "l", "l">>
      [] v.py = "bool" -> IF v.b THEN <<"t", "r", "u", "e">> ELSE <<"f", "a", "l", "s", "e">>
      [] v.py = "float" -> NumText(v.x)
      [] v.py = "str" -> <<"\"">> \o Escape(v.s) \o <<"\"">>
      [] v.py = "list" -> <<"[">> \o DumpItems(v.items) \o <<"]">>
      [] v.py = "dict" -> <<"{">> \o DumpMembers(v.keys, v.values) \o <<"}">>

DumpItems(items) ==
    IF items = <<>> THEN <<>>
    ELSE JsonDumps(Head(items)) \o
         (IF Len(items) = 1 THEN <<>> ELSE <<",", " ">> \o DumpItems(Tail(items)))

DumpMembers(keys, values) ==
    IF keys = <<>> THEN <<>>
    ELSE <<"\"">> \o Escape(Head(keys)) \o <<"\"", ":", " ">> \o JsonDumps(Head(values)) \o
         (IF Len(keys) = 1 THEN <<>> ELSE <<",", " ">> \o DumpMembers(Tail(keys), Tail(values)))

(* app.py 71: json.loads(line); a result is [ok, v, i], i the position     *)
(* after the value, and ok is false where json raises JSONDecodeError      *)
Fail == [ok |-> FALSE, v |-> None, i |-> 0]
Parsed(v, i) == [ok |-> TRUE, v |-> v, i |-> i]

IsLit(s, i, lit) ==
    i + Len(lit) - 1 <= Len(s) /\ SubSeq(s, i, i + Len(lit) - 1) = lit

RECURSIVE SkipWs(_, _)
SkipWs(s, i) == IF i <= Len(s) /\ s[i] \in Whitespace THEN SkipWs(s, i + 1) ELSE i

Unescape(c) ==
    CASE c = "n" -> "\n"
      [] c = "r" -> "\r"
      [] c = "t" -> "\t"
      [] OTHER -> c

RECURSIVE ScanString(_, _, _)
ScanString(s, i, acc) ==
    IF i > Len(s) THEN Fail
    ELSE IF s[i] = "\"" THEN Parsed(Str(acc), i + 1)
    ELSE IF s[i] = "\\"
      THEN IF i + 1 > Len(s) THEN Fail
           ELSE IF s[i + 1] \in {"\"", "\\", "/", "n", "r", "t"}
             THEN ScanString(s, i + 2, Append(acc, Unescape(s[i + 1])))
           ELSE IF IsLit(s, i + 1, <<"u", "0", "0", "e", "9">>)
             THEN ScanString(s, i + 6, Append(acc, NonAscii))
           ELSE Fail
    ELSE IF s[i] \in {"\n", "\r", "\t"} THEN Fail
    ELSE ScanString(s, i + 1, Append(acc, s[i]))

DigitVal(c) == CHOOSE d \in 0..9 : DigitChars[d + 1] = c

RECURSIVE ScanDigits(_, _, _)
ScanDigits(s, i, acc) ==
    IF i <= Len(s) /\ s[i] \in Digits
      THEN ScanDigits(s, i + 1, 10 * acc + DigitVal(s[i]))
      ELSE Parsed(Float(acc), i)

RECURSIVE ParseValue(_, _), ParseItems(_, _, _), ParseMembers(_, _, _, _)
ParseValue(s, i0) ==
    LET i == SkipWs(s, i0) IN
    IF i > Len(s) THEN Fail
    ELSE IF s[i] = "\"" THEN ScanString(s, i + 1, <<>>)
    ELSE IF s[i] = "0" THEN Parsed(Float(0), i + 1)
    ELSE IF s[i] \in Digits THEN ScanDigits(s, i, 0)
    ELSE IF IsLit(s, i, <<"n", "u", "l", "l">>) THEN Parsed(None, i + 4)
    ELSE IF IsLit(s, i, <<"t", "r", "u", "e">>) THEN Parsed(Bool(TRUE), i + 4)
    ELSE IF IsLit(s, i, <<"f", "a", "l", "s", "e">>) THEN Parsed(Bool(FALSE), i + 5)
    ELSE IF s[i] = "["
      THEN LET j == SkipWs(s, i + 1) IN
           IF j <= Len(s) /\ s[j] = "]" THEN Parsed(List(<<>>), j + 1)
           ELSE ParseItems(s, j, <<>>)
    ELSE IF s[i] = "{"
      THEN LET j == SkipWs(s, i + 1) IN
           IF j <= Len(s) /\ s[j] = "}" THEN Parsed(Dict(<<>>, <<>>), j + 1)
           ELSE ParseMembers(s, j, <<>>, <<>>)
    ELSE Fail

ParseItems(s, i, acc) ==
    LET r == ParseValue(s, i) IN
    IF ~r.ok THEN Fail
    ELSE LET j == SkipWs(s, r.i) IN
         IF j > Len(s) THEN Fail
         ELSE IF s[j] = "," THEN ParseItems(s, j + 1, Append(acc, r.v))
         ELSE IF s[j] = "]" THEN Parsed(List(Append(acc, r.v)), j + 1)
         ELSE Fail

ParseMembers(s, i0, ks, vs) ==
    LET i == SkipWs(s, i0) IN
    IF i > Len(s) \/ s[i] # "\"" THEN Fail
    ELSE LET k == ScanString(s, i + 1, <<>>) IN
         IF ~k.ok THEN Fail
         ELSE LET c == SkipWs(s, k.i) IN
              IF c > Len(s) \/ s[c] # ":" THEN Fail
              ELSE LET r == ParseValue(s, c + 1) IN
                   IF ~r.ok THEN Fail
                   ELSE LET j == SkipWs(s, r.i) IN
                        IF j > Len(s) THEN Fail
                        ELSE IF s[j] = ","
                          THEN ParseMembers(s, j + 1, Append(ks, k.v.s), Append(vs, r.v))
                        ELSE IF s[j] = "}"
                          THEN Parsed(Dict(Append(ks, k.v.s), Append(vs, r.v)), j + 1)
                        ELSE Fail

JsonLoads(line) ==
    LET r == ParseValue(line, 1) IN
    IF r.ok /\ SkipWs(line, r.i) > Len(line) THEN r ELSE Fail

(* app.py 66: for line in f, the file opened in text mode: a line ends at  *)
(* "\n", "\r" or "\r\n", and the last one at the end of the file           *)
LineBreaks == {"\n", "\r"}

FirstBreak(data) ==
    CHOOSE i \in 1..Len(data) :
        data[i] \in LineBreaks /\ \A j \in 1..(i - 1) : data[j] \notin LineBreaks

RECURSIVE SplitLines(_)
SplitLines(data) ==
    IF data = <<>> THEN <<>>
    ELSE IF \A i \in 1..Len(data) : data[i] \notin LineBreaks THEN <<data>>
    ELSE LET b == FirstBreak(data)
             e == IF data[b] = "\r" /\ b < Len(data) /\ data[b + 1] = "\n" THEN b + 1 ELSE b
         IN  <<SubSeq(data, 1, b - 1)>> \o SplitLines(SubSeq(data, e + 1, Len(data)))

(* app.py 66-73: strip, skip the empty line, skip the line json rejects *)
RECURSIVE ReadRecords(_)
ReadRecords(ls) ==
    IF ls = <<>> THEN <<>>
    ELSE LET line == Strip(Head(ls))
             r == JsonLoads(line)
         IN  (IF line = <<>> \/ ~r.ok THEN <<>> ELSE <<r.v>>) \o ReadRecords(Tail(ls))

(* app.py 58-76: a missing file gives the empty list; bytes that are not   *)
(* UTF-8 make the iteration raise UnicodeDecodeError, which no except      *)
(* clause of the function catches                                          *)
load_escalations(f) ==
    IF ~f.exists THEN Returned(<<>>)
    ELSE IF Undecodable \in Range(f.data)
      THEN [raised |-> "UnicodeDecodeError", records |-> <<>>]
    ELSE Returned(ReadRecords(SplitLines(f.data)))

KeyTimestamp == <<"t", "i", "m", "e", "s", "t", "a", "m", "p">>
KeyUserId == <<"u", "s", "e", "r", "_", "i", "d">>
KeyStudentEmail == <<"s", "t", "u", "d", "e", "n", "t", "_", "e", "m", "a", "i", "l">>
KeyQuestion == <<"q", "u", "e", "s", "t", "i", "o", "n">>
KeyReply == <<"r", "e", "p", "l", "y">>
KeyContext == <<"c", "o", "n", "t", "e", "x", "t">>
KeyDistances == <<"d", "i", "s", "t", "a", "n", "c", "e", "s">>
KeyConversation == <<"c", "o", "n", "v", "e", "r", "s", "a", "t", "i", "o", "n">>
KeyRole == <<"r", "o", "l", "e">>
KeyContent == <<"c", "o", "n", "t", "e", "n", "t">>

RoleText(role) ==
    CASE role = "system" -> <<"s", "y", "s", "t", "e", "m">>
      [] role = "user" -> <<"u", "s", "e", "r">>
      [] role = "assistant" -> <<"a", "s", "s", "i", "s", "t", "a", "n", "t">>

MessageValue(m) == Dict(<<KeyRole, KeyContent>>, <<Str(RoleText(m.role)), Str(m.content)>>)

(* utcnow().isoformat() + "Z" of the model's clock *)
TimestampText(t) == NumText(t) \o <<"Z">>

(* app.py 41-50: the payload dict of the arguments a and the time ts *)
PayloadValue(a, ts) ==
    Dict(<<KeyTimestamp, KeyUserId, KeyStudentEmail, KeyQuestion, KeyReply, KeyContext,
           KeyDistances, KeyConversation>>,
         <<Str(ts), Str(a.user_id), a.student_email, Str(a.question), Str(a.reply),
           Str(a.context),
           List([i \in 1..Len(a.distances) |-> Float(a.distances[i])]),
           List([i \in 1..Len(a.convo) |-> MessageValue(a.convo[i])])>>)

(* app.py 55: the text of one write *)
RecordLine(a, ts) == JsonDumps(PayloadValue(a, ts)) \o <<"\n">>

(***************************************************************************)
(* save_escalation_to_file against the file itself.  A job is one call;    *)
(* the text reaches the file when the with block closes it, by one write   *)
(* of a file opened in append mode: the position moves to the end of the   *)
(* file and the text is written there.  The code holds no lock, so calls   *)
(* running on different pool threads are only as exclusive as the platform *)
(* makes the two halves of that write.                                     *)
(***************************************************************************)
ArgsQuoted ==
    [user_id |-> <<"7">>, student_email |-> Str(<<"a", "@", "k">>),
     question |-> <<"a", "\"", "b", ",", " ">>, reply |-> <<"\\", "n", "]">>,
     context |-> <<"c", "\n", "d">>, distances |-> <<4, FltMax>>,
     convo |-> <<[role |-> "system", content |-> <<"s">>],
                 [role |-> "user", content |-> <<"\n", "{", "}">>]>>]

ArgsBare ==
    [user_id |-> <<"8">>, student_email |-> None,
     question |-> <<>>, reply |-> <<NonAscii, "\t">>,
     context |-> <<"\r", "\n">>, distances |-> <<>>,
     convo |-> <<>>]

SampleArgs == {ArgsQuoted, ArgsBare}

NewJob(a) == [args |-> a, st |-> "todo", ts |-> <<>>, text |-> <<>>, off |-> 0]
NumDone == Cardinality({j \in 1..Len(jobs) : jobs[j].st = "done"})

(* app.py 41-54: the payload is built at the current time and the file is  *)
(* opened for appending, which creates it when it is missing               *)
SaveOpenAny(j) ==
    /\ j \in 1..Len(jobs) /\ jobs[j].st = "todo"
    /\ jobs' = [jobs EXCEPT ![j].st = "open", ![j].ts = TimestampText(clock),
                           ![j].text = RecordLine(jobs[j].args, TimestampText(clock))]
    /\ clock' = clock + 1
    /\ file' = [file EXCEPT !.exists = TRUE]
    /\ UNCHANGED <<kb, sessions, pc, th, tasks, logfile, ghosts, fn, loaded, lines>>

(* the same, when the calls are made one after another *)
SaveOpen(j) ==
    /\ \A k \in 1..Len(jobs) : jobs[k].st \in {"todo", "done"}
    /\ \A k \in 1..Len(jobs) : k < j => jobs[k].st = "done"
    /\ SaveOpenAny(j)

(* app.py 54-55: append mode, the position moves to the end of the file *)
SaveSeekEnd(j) ==
    /\ j \in 1..Len(jobs) /\ jobs[j].st = "open"
    /\ jobs' = [jobs EXCEPT ![j].st = "seeked", ![j].off = Len(file.data)]
    /\ UNCHANGED <<kb, sessions, pc, th, tasks, disk, ghosts, fn, file, loaded, lines>>

WriteAt(data, off, text) ==
    SubSeq(data, 1, off) \o text \o SubSeq(data, off + Len(text) + 1, Len(data))

(* app.py 55: the text of the record is written at the position *)
SaveWrite(j) ==
    /\ j \in 1..Len(jobs) /\ jobs[j].st = "seeked"
    /\ file' = [file EXCEPT !.data = WriteAt(@, jobs[j].off, jobs[j].text)]
    /\ jobs' = [jobs EXCEPT ![j].st = "done"]
    /\ UNCHANGED <<kb, sessions, pc, th, tasks, disk, ghosts, fn, loaded, lines>>

(* app.py 58-76, called by the dashboard (app.py 222) *)
LoadEscalations ==
    /\ loaded' = [done |-> TRUE, at |-> NumDone, result |-> load_escalations(file)]
    /\ UNCHANGED <<kb, sessions, pc, th, tasks, disk, ghosts, fn, file, jobs, lines>>

InitLog ==
    /\ InitProgram /\ Len(chunks) = MinChunks
    /\ fn = NoFn
    /\ file \in {NoFile, EmptyFile}
    /\ \E as \in SeqsUpTo(SampleArgs, MaxRecords) : jobs = [i \in 1..Len(as) |-> NewJob(as[i])]
    /\ loaded = NotLoaded
    /\ lines = <<>>

NextLog ==
    \/ \E j \in 1..Len(jobs) : SaveOpen(j)
    \/ \E j \in 1..Len(jobs) : SaveSeekEnd(j)
    \/ \E j \in 1..Len(jobs) : SaveWrite(j)
    \/ LoadEscalations

SpecLog == InitLog /\ [][NextLog]_vars

NextLogConc ==
    \/ \E j \in 1..Len(jobs) : SaveOpenAny(j)
    \/ \E j \in 1..Len(jobs) : SaveSeekEnd(j)
    \/ \E j \in 1..Len(jobs) : SaveWrite(j)
    \/ LoadEscalations

SpecLogConc == InitLog /\ [][NextLogConc]_vars

(***************************************************************************)
(* load_escalations on a file made of given lines: records, blank lines,   *)
(* lines that are not JSON, records cut short, bytes that are not text.    *)
(* rec is the record a line holds, when it holds one.                      *)
(***************************************************************************)
Line(text, rec, nl) == [text |-> text, rec |-> rec, nl |-> nl]
RecordText(a) == JsonDumps(PayloadValue(a, TimestampText(0)))
LineOf(a) == Line(RecordText(a), <<PayloadValue(a, TimestampText(0))>>, <<"\n">>)
LineCrLf(a) == Line(RecordText(a), <<PayloadValue(a, TimestampText(0))>>, <<"\r", "\n">>)
CutShort(text, n) == SubSeq(text, 1, n)

LineSamples ==
    {LineOf(ArgsQuoted), LineCrLf(ArgsBare),
     Line(<<>>, <<>>, <<"\n">>),
     Line(<<" ", "\t">>, <<>>, <<"\n">>),
     Line(<<"x", "y">>, <<>>, <<"\n">>),
     Line(CutShort(RecordText(ArgsQuoted), Len(RecordText(ArgsQuoted)) \div 2), <<>>, <<"\n">>),
     Line(CutShort(RecordText(ArgsBare), Len(RecordText(ArgsBare)) - 1), <<>>, <<"\n">>),
     Line(<<"{", Undecodable, "}">>, <<>>, <<"\n">>)}

RECURSIVE FileOf(_)
FileOf(ls) == IF ls = <<>> THEN <<>> ELSE Head(ls).text \o Head(ls).nl \o FileOf(Tail(ls))

InitLoad ==
    /\ InitProgram /\ Len(chunks) = MinChunks
    /\ fn = NoFn
    /\ jobs = <<>>
    /\ loaded = NotLoaded
    /\ \/ file = NoFile /\ lines = <<>>
       \/ \E ls \in SeqsUpTo(LineSamples, MaxLines) :
             lines = ls /\ file = [exists |-> TRUE, data |-> FileOf(ls)]

NextLoad == LoadEscalations

SpecLoad == InitLoad /\ [][NextLoad]_vars

(***************************************************************************)
(* Properties.                                                             *)
(***************************************************************************)
IsStr(e) == e.py = "str"
Done(w) == pc[w] = "respond"
Session(u) == lists[conversations[u]]

(* C1: the first request of a user-id that has no session, whatever its    *)
(* text, creates the session with a history of exactly one system message  *)
(* and no stored email, answers the onboarding greeting, and makes no      *)
(* retrieval and no generation call.                                       *)
C1_FirstRequestGreets ==
    \A w \in Workers :
        (pc[w] # "idle" /\ ~th[w].hadSession) =>
            /\ th[w].calls = <<>>
            /\ Done(w) =>
                  /\ th[w].response = Intro
                  /\ conversations[th[w].user_id] # NoList
                  /\ Session(th[w].user_id) = <<SystemMsg>>
                  /\ student_emails[th[w].user_id] = None

C1_Witness ==
    \E w \in Workers :
        /\ Done(w) /\ ~th[w].hadSession
        /\ th[w].message = MsgEmail
        /\ th[w].response = Intro

(* C2: a request that arrives while the session awaits the email keeps it  *)
(* in AwaitingEmail and answers the re-prompt when the email predicate is  *)
(* false of the message, and moves it to Ready when the predicate is true; *)
(* the move to Ready happens at most once per session, and has happened    *)
(* exactly when an email is stored.                                        *)
C2_AwaitingEmailLoop ==
    /\ \A w \in Workers :
          (Done(w) /\ th[w].hadSession /\ th[w].emailAtArrival = None) =>
              IF is_knox_email(th[w].message)
                THEN /\ IsStr(student_emails[th[w].user_id])
                     /\ nReady[th[w].user_id] = 1
                ELSE /\ student_emails[th[w].user_id] = None
                     /\ nReady[th[w].user_id] = 0
                     /\ th[w].response = NeedEmail
    /\ \A u \in Users :
          /\ nReady[u] <= 1
          /\ (nReady[u] = 1) <=> IsStr(student_emails[u])

C2_Witness ==
    \E w \in Workers :
        /\ Done(w) /\ th[w].hadSession /\ th[w].emailAtArrival = None
        /\ is_knox_email(th[w].message)
        /\ nReady[th[w].user_id] = 1
        /\ nRequests >= 3

(* C3: a request makes a retrieval or generation call only if the session  *)
(* had a stored email when the request arrived; a request that arrives in  *)
(* Ready makes the search call and then the generation call; the request   *)
(* that supplies the email makes neither.                                  *)
C3_PipelineOnlyWhenReady ==
    \A w \in Workers :
        /\ th[w].calls # <<>> => IsStr(th[w].emailAtArrival)
        /\ (Done(w) /\ IsStr(th[w].emailAtArrival)) => th[w].calls = <<"search", "generate">>
        /\ (Done(w) /\ th[w].emailAtArrival = None) => th[w].calls = <<>>

C3_Witness ==
    \E w \in Workers :
        /\ Done(w) /\ IsStr(th[w].emailAtArrival) /\ th[w].gated
        /\ th[w].calls = <<"search", "generate">>
        /\ is_knox_email(th[w].message)

(* C4: is_knox_email(text) is true exactly when the text, stripped of      *)
(* surrounding whitespace and lower-cased, is a non-empty local part of    *)
(* letters, digits and . _ % + - followed by @knox.edu and nothing else.   *)
AllowedLocal == Range(LowerCase) \cup Digits \cup {".", "_", "%", "+", "-"}
KnoxSuffix == <<"@","k","n","o","x",".","e","d","u">>

IsKnoxAddress(text) ==
    LET t == Lower(Strip(text))
        n == Len(t) - Len(KnoxSuffix)
    IN  /\ n >= 1
        /\ \A i \in 1..n : t[i] \in AllowedLocal
        /\ \A j \in 1..Len(KnoxSuffix) : t[n + j] = KnoxSuffix[j]

C4_EmailPredicate ==
    (fn.f = "is_knox_email" /\ fn.done) => (fn.result <=> IsKnoxAddress(fn.text))

C4_Witness ==
    /\ fn.f = "is_knox_email" /\ fn.done /\ fn.result
    /\ fn.text # Lower(Strip(fn.text))
    /\ Len(Strip(fn.text)) = Len(KnoxSuffix) + MaxLocal

(* C5: the escalation trigger is true if and only if the distance list is  *)
(* empty, or the mean of the distances is strictly greater than 1.1, or    *)
(* the reply contains the marker as a case-insensitive substring; a mean   *)
(* of exactly 1.1 without the marker does not trigger.                     *)
RECURSIVE Total(_, _)
Total(d, n) == IF n = 0 THEN 0 ELSE Total(d, n - 1) + d[n]

MeanAbove(d) == Len(d) > 0 /\ 10 * Total(d, Len(d)) > 110 * Len(d)
MeanExactly(d) == Len(d) > 0 /\ 10 * Total(d, Len(d)) = 110 * Len(d)

HasMarker(reply) ==
    \E i \in 0..(Len(reply) - Len(Marker)) :
        \A j \in 1..Len(Marker) : LowerChar(reply[i + j]) = Marker[j]

C5_EscalationTrigger ==
    (fn.f = "trigger" /\ fn.done) =>
        (fn.result <=> (fn.distances = <<>> \/ MeanAbove(fn.distances) \/ HasMarker(fn.reply)))

C5_Witness ==
    /\ fn.f = "trigger" /\ fn.done /\ ~fn.result
    /\ MeanExactly(fn.distances)
    /\ Len(fn.distances) = 2 /\ fn.distances[1] # fn.distances[2]

(* C6: in a Ready turn whose generated reply contains the marker, the      *)
(* response is the fixed apology and not the generated reply, and the log  *)
(* task of the turn, and the record written from it, carry the generated   *)
(* reply verbatim.                                                         *)
C6_TurnState ==
    \A w \in Workers :
        (Done(w) /\ th[w].gated /\ HasMarker(th[w].reply)) =>
            /\ th[w].response = FixedApology
            /\ th[w].response # th[w].reply
            /\ Len(th[w].task) = 1
            /\ th[w].task[1].reply = th[w].reply
            /\ th[w].task[1].user_id = th[w].user_id

C6_RecordStep ==
    /\ \A w \in Workers :
          (Done(w) /\ pc'[w] = "idle") => tasks' = tasks \o th[w].task
    /\ Len(logfile') > Len(logfile) =>
          \E i \in 1..Len(tasks) :
              /\ tasks' = RemoveAt(tasks, i)
              /\ logfile' = Append(logfile, logfile'[Len(logfile')])
              /\ logfile'[Len(logfile')].reply = tasks[i].reply
              /\ logfile'[Len(logfile')].user_id = tasks[i].user_id
              /\ logfile'[Len(logfile')].reply # FixedApology

C6_FlaggedReplyRewritten == [](C6_TurnState) /\ [][C6_RecordStep]_vars

C6_Witness ==
    /\ \E w \in Workers :
          /\ Done(w) /\ th[w].gated /\ HasMarker(th[w].reply)
          /\ ~low_retrieval_confidence(th[w].distances, Threshold)
          /\ th[w].response = FixedApology
    /\ \E i \in 1..Len(logfile) : HasMarker(logfile[i].reply)

(* C7: in a Ready turn whose generated reply does not contain the marker,  *)
(* the response is exactly the generated reply, whether or not the turn is *)
(* low-confidence and logged.                                              *)
C7_UnflaggedReplyShown ==
    \A w \in Workers :
        (Done(w) /\ th[w].gated /\ ~HasMarker(th[w].reply)) => th[w].response = th[w].reply

C7_Witness ==
    \E w \in Workers :
        /\ Done(w) /\ th[w].gated /\ ~HasMarker(th[w].reply)
        /\ MeanAbove(th[w].distances)
        /\ th[w].task # NoTask
        /\ th[w].response = th[w].reply

(* C8: every Ready turn whose trigger is true schedules exactly one log    *)
(* task and every other turn schedules none; the records in the log, the   *)
(* released tasks and the tasks of turns about to respond add up to the    *)
(* number of triggering turns, so once no task is left the log holds one   *)
(* record per triggering turn.                                             *)
Held == {w \in Workers : Done(w) /\ th[w].task # NoTask}

C8_OneRecordPerTrigger ==
    /\ nTriggered = Len(logfile) + Len(tasks) + Cardinality(Held)
    /\ \A w \in Workers :
          /\ Len(th[w].task) <= 1
          /\ (Done(w) /\ ~th[w].gated) => th[w].task = NoTask
          /\ (Done(w) /\ th[w].gated) =>
                ((th[w].task # NoTask) <=>
                    (MeanAbove(th[w].distances) \/ HasMarker(th[w].reply)))
    /\ (tasks = <<>> /\ \A w \in Workers : pc[w] = "idle") => Len(logfile) = nTriggered

C8_Witness ==
    /\ tasks = <<>> /\ \A w \in Workers : pc[w] = "idle"
    /\ nRequests = MaxRequests
    /\ Len(logfile) = 1
    /\ nTriggered = 1
    /\ \E u \in Users : conversations[u] # NoList /\ Len(Session(u)) = 5

(* C9: the conversation of a record is the history the session had when    *)
(* the escalation was triggered; messages appended by later requests       *)
(* before the background append runs do not appear in it.                  *)
C9_Step ==
    \A i \in 1..Len(tasks) :
        (tasks' = RemoveAt(tasks, i) /\ Len(logfile') = Len(logfile) + 1) =>
            logfile'[Len(logfile')].conversation = tasks[i].snapshot

C9_ConversationIsSnapshot == [][C9_Step]_vars

(* C10: the retrieval of a Ready turn over an index of N >= 1 chunks       *)
(* yields min(5, N) results in ascending order of distance: min(5, N)      *)
(* distances, and a context of min(5, N) texts of distinct chunk           *)
(* positions.                                                              *)
Min(a, b) == IF a < b THEN a ELSE b

C10_MinTopKResults ==
    \A w \in Workers :
        (pc[w] # "idle" /\ th[w].ready) =>
            LET n == Min(TopK, Len(chunks)) IN
            /\ Len(th[w].distances) = n
            /\ \A i \in 1..(Len(th[w].distances) - 1) :
                  th[w].distances[i] <= th[w].distances[i + 1]
            /\ Len(th[w].labels) = n
            /\ \A i \in 1..Len(th[w].labels) : th[w].labels[i] \in 0..(Len(chunks) - 1)
            /\ \A i, j \in 1..Len(th[w].labels) :
                  i # j => th[w].labels[i] # th[w].labels[j]
            /\ th[w].context = Join([i \in 1..n |-> chunks[th[w].labels[i] + 1]])

(* C11: when the generation (or embedding) call of a Ready turn raises,    *)
(* the turn does not crash: the request completes with a generic apology   *)
(* as its response, not with the server's error response, and requests     *)
(* received afterwards are still served.                                   *)
GenerationFailed(w) ==
    /\ Done(w) /\ th[w].ready /\ ~th[w].gated
    /\ th[w].calls = <<"search", "generate">>

C11_GenerationErrorApology ==
    \A w \in Workers :
        GenerationFailed(w) =>
            /\ th[w].response # InternalServerError
            /\ th[w].response = FixedApology

(* C15: with the requests of a session processed one at a time, turns in   *)
(* which the generation call fails included, the history is the system     *)
(* message followed by complete (user, assistant) pairs: a history that no *)
(* request is working on is well paired, and the history handed to a       *)
(* generation call is a well paired history followed by the user message   *)
(* of the current turn.                                                    *)
Front(h) == SubSeq(h, 1, Len(h) - 1)

WellPaired(h) ==
    /\ Len(h) >= 1 /\ Len(h) % 2 = 1
    /\ h[1] = SystemMsg
    /\ \A i \in 2..Len(h) :
          h[i].role = (IF i % 2 = 0 THEN "user" ELSE "assistant")

C15_HistoryWellPaired ==
    /\ \A u \in Users :
          (conversations[u] # NoList /\ ~InFlight(u)) => WellPaired(Session(u))
    /\ \A w \in Workers :
          (th[w].seen # <<>>) =>
              /\ WellPaired(Front(th[w].seen))
              /\ th[w].seen[Len(th[w].seen)] =
                    [role |-> "user",
                     content |-> UserContent(th[w].context, th[w].message)]

(* C17: sessions are isolated: a step of a request of user A, in any state *)
(* and any interleaving with requests of other users, leaves the session,  *)
(* the history and the stored email of every other user B as they were;    *)
(* no two users share a history, and the history handed to a generation    *)
(* call for A is the history of A's own session.                           *)
Actor(w) == IF pc[w] = "idle" THEN th'[w].user_id ELSE th[w].user_id

C17_Step ==
    \A w \in Workers :
        (pc'[w] # pc[w]) =>
            \A B \in Users \ {Actor(w)} :
                /\ conversations'[B] = conversations[B]
                /\ student_emails'[B] = student_emails[B]
                /\ conversations[B] # NoList =>
                      lists'[conversations[B]] = lists[conversations[B]]

C17_State ==
    /\ \A A, B \in Users :
          (A # B /\ conversations[A] # NoList) => conversations[A] # conversations[B]
    /\ \A w \in Workers :
          (th[w].seen # <<>>) =>
              /\ th[w].messages = conversations[th[w].user_id]
              /\ Len(th[w].seen) <= Len(Session(th[w].user_id))
              /\ th[w].seen = SubSeq(Session(th[w].user_id), 1, Len(th[w].seen))

C17_SessionIsolation == [](C17_State) /\ [][C17_Step]_vars

C17_Witness ==
    \E w, v \in Workers :
        /\ w # v
        /\ pc[w] = "append_reply" /\ th[w].seen # <<>>
        /\ pc[v] = "respond" /\ th[v].user_id # th[w].user_id
        /\ ~th[v].hadSession
        /\ conversations[th[v].user_id] # NoList
        /\ student_emails[th[v].user_id] = None

(* C18: Ready is terminal and the email is set once: the stored email is   *)
(* the text of the first message satisfying the email predicate with the   *)
(* surrounding whitespace removed, the confirmation contains it, and no    *)
(* later step changes or clears it; a later message of a Ready session,    *)
(* one that is again a valid email included, is handled as a question:     *)
(* retrieval and generation are called and the email stays as it was.      *)
Trimmed(stored, message) ==
    /\ stored # <<>>
    /\ stored[1] \notin Whitespace /\ stored[Len(stored)] \notin Whitespace
    /\ \E i \in 0..(Len(message) - Len(stored)) :
          /\ SubSeq(message, i + 1, i + Len(stored)) = stored
          /\ \A j \in (1..i) \cup ((i + Len(stored) + 1)..Len(message)) :
                message[j] \in Whitespace

C18_State ==
    \A w \in Workers :
        LET u == th[w].user_id IN
        /\ (Done(w) /\ th[w].hadSession /\ th[w].emailAtArrival = None
                 /\ is_knox_email(th[w].message)) =>
              /\ IsStr(student_emails[u])
              /\ Trimmed(student_emails[u].s, th[w].message)
              /\ Contains(th[w].response, student_emails[u].s)
              /\ th[w].calls = <<>>
        /\ (pc[w] # "idle" /\ IsStr(th[w].emailAtArrival)) =>
              /\ student_emails[u] = th[w].emailAtArrival
              /\ Done(w) =>
                    /\ th[w].ready
                    /\ th[w].calls = <<"search", "generate">>
                    /\ th[w].response \notin {Intro, NeedEmail, ConfirmMsg(student_emails[u].s)}

C18_Step ==
    \A u \in Users :
        IsStr(student_emails[u]) => student_emails'[u] = student_emails[u]

C18_EmailSetOnce == [](C18_State) /\ [][C18_Step]_vars

C18_Witness ==
    \E w \in Workers :
        /\ Done(w) /\ IsStr(th[w].emailAtArrival)
        /\ th[w].message = MsgEmail
        /\ student_emails[th[w].user_id].s # MsgEmail
        /\ Trimmed(student_emails[th[w].user_id].s, MsgEmail)
        /\ th[w].calls = <<"search", "generate">>

(* C19: the onboarding turns leave the history untouched: the first        *)
(* message, the rejected messages and the accepted email are never         *)
(* appended, so the history of a session that is not Ready, and of a       *)
(* session that has just become Ready, is exactly the system message, and  *)
(* the generation call of the turn that finds it so sees the system        *)
(* message followed by the user message of that turn only.                 *)
TurnUserMsg(w) ==
    [role |-> "user", content |-> UserContent(th[w].context, th[w].message)]

C19_State ==
    /\ \A u \in Users :
          (conversations[u] # NoList /\ ~IsStr(student_emails[u])) =>
              Session(u) = <<SystemMsg>>
    /\ \A w \in Workers :
          /\ (Done(w) /\ ~IsStr(th[w].emailAtArrival)) =>
                /\ th[w].calls = <<>>
                /\ Session(th[w].user_id) = <<SystemMsg>>
          /\ (th[w].seen # <<>>) =>
                /\ Len(th[w].seen) >= 2
                /\ th[w].seen[1] = SystemMsg
                /\ \A i \in 2..Len(th[w].seen) :
                      /\ th[w].seen[i].role \in {"user", "assistant"}
                      /\ th[w].seen[i].role = "user" =>
                            /\ th[w].seen[i].content \notin Messages
                            /\ th[w].seen[i].content[1] = "Use this context to answer:\n"
                /\ Len(th[w].seen) = 2 => th[w].seen[2] = TurnUserMsg(w)

C19_Step ==
    \A w \in Workers :
        LET l == conversations[th[w].user_id] IN
        /\ (pc[w] \in {"check", "create", "initemail", "email", "store_email"}
              /\ pc'[w] # pc[w] /\ conversations[th[w].user_id] # NoList) =>
              lists'[l] = lists[l]
        /\ (pc[w] = "chat_begin" /\ pc'[w] = "generate" /\ lists[l] = <<SystemMsg>>) =>
              lists'[l] = <<SystemMsg, [role |-> "user",
                              content |-> UserContent(th'[w].context, th[w].message)]>>
        /\ (pc[w] = "generate" /\ pc'[w] # pc[w]) => th'[w].seen = lists[l]

C19_OnboardingLeavesHistory == [](C19_State) /\ [][C19_Step]_vars

C19_Witness ==
    \E w \in Workers :
        /\ pc[w] = "append_reply"
        /\ th[w].seen = <<SystemMsg, TurnUserMsg(w)>>
        /\ nRequests = 4

(* C20: after a Ready turn flagged out of scope the assistant message kept *)
(* in the history is the generated reply, marker included, while the       *)
(* response is the fixed apology; no history, no history handed to a       *)
(* generation call and no conversation of a scheduled or written           *)
(* escalation record holds the fixed apology as an assistant message.      *)
NoApology(h) ==
    \A i \in 1..Len(h) : ~(h[i].role = "assistant" /\ h[i].content = FixedApology)

C20_HistoryKeepsGeneratedReply ==
    /\ \A u \in Users : conversations[u] # NoList => NoApology(Session(u))
    /\ \A w \in Workers : NoApology(th[w].seen)
    /\ \A i \in 1..Len(tasks) :
          NoApology(tasks[i].snapshot) /\ NoApology(lists[tasks[i].convo])
    /\ \A i \in 1..Len(logfile) : NoApology(logfile[i].conversation)
    /\ \A w \in Workers :
          (Done(w) /\ th[w].gated /\ th[w].flagged) =>
              LET h == Session(th[w].user_id) IN
              /\ th[w].response = FixedApology
              /\ h[Len(h)] = [role |-> "assistant", content |-> th[w].reply]
              /\ HasMarker(th[w].reply)
              /\ th[w].reply # FixedApology

C20_Witness ==
    \E i \in 1..Len(logfile) :
        LET c == logfile[i].conversation IN
        /\ logfile[i].reply = ReplyMarked
        /\ c[Len(c)] = [role |-> "assistant", content |-> ReplyMarked]
        /\ tasks = <<>>

(* C16: when two requests of one user-id are in flight at once, their      *)
(* changes to the session do not interleave: the session is created once   *)
(* and never reset, the user message of a turn is immediately followed by  *)
(* the assistant reply of that turn, and the history handed to a           *)
(* generation call ends with the user message of its own turn.             *)
Created == {u \in Users : conversations[u] # NoList}

C16_SameUserSerialised ==
    /\ nextList - 1 = Cardinality(Created)
    /\ \A w \in Workers :
          /\ (th[w].seen # <<>>) => th[w].seen[Len(th[w].seen)] = TurnUserMsg(w)
          /\ (pc[w] = "gate") =>
                LET h == lists[th[w].messages] IN
                /\ th[w].messages = conversations[th[w].user_id]
                /\ Len(h) >= 3
                /\ h[Len(h) - 1] = TurnUserMsg(w)
                /\ h[Len(h)] = [role |-> "assistant", content |-> th[w].reply]

(* C12: the log round trip: after N calls of save_escalation_to_file made  *)
(* one after another on a log that was absent or empty, load_escalations   *)
(* returns exactly N records, in the order of the calls, each equal, field *)
(* by field, to the payload written: the timestamp written and the         *)
(* user_id, student_email, question, reply, context, distances and         *)
(* conversation passed to the call.                                        *)
Written(j) == PayloadValue(jobs[j].args, jobs[j].ts)

C12_LogRoundTrip ==
    loaded.done =>
        /\ loaded.result.raised = ""
        /\ Len(loaded.result.records) = loaded.at
        /\ \A i \in 1..loaded.at : loaded.result.records[i] = Written(i)

C12_Witness ==
    /\ loaded.done /\ loaded.at = MaxRecords
    /\ Len(loaded.result.records) = MaxRecords
    /\ jobs[1].args = ArgsQuoted /\ jobs[2].args = ArgsBare
    /\ loaded.result.records[1] = Written(1)
    /\ loaded.result.records[2] # loaded.result.records[1]

(* C13: load_escalations never aborts on bad content: on a log whose lines *)
(* are any mix of well-formed records, blank lines and corrupt or partial  *)
(* lines it returns exactly the well-formed records, in file order, those  *)
(* after a corrupt line included, and on a missing file the empty list.    *)
RECURSIVE RecordsOf(_)
RecordsOf(ls) == IF ls = <<>> THEN <<>> ELSE Head(ls).rec \o RecordsOf(Tail(ls))

C13_LoadSkipsBadLines ==
    loaded.done => loaded.result = Returned(RecordsOf(lines))

(* C14: every append is atomic with respect to readers and other writers:  *)
(* in any interleaving of appends running at once with a read-back, each   *)
(* completed append is in the file as one whole line, and every record the *)
(* reader returns is the payload of one append, never part of a record nor *)
(* a mix of two.                                                           *)
WholeLine(data, text) ==
    \E off \in 0..(Len(data) - Len(text)) :
        /\ SubSeq(data, off + 1, off + Len(text)) = text
        /\ off = 0 \/ data[off] = "\n"

C14_AppendAtomic ==
    /\ \A j \in 1..Len(jobs) :
          jobs[j].st = "done" => WholeLine(file.data, jobs[j].text)
    /\ loaded.done =>
          /\ loaded.result.raised = ""
          /\ \A i \in 1..Len(loaded.result.records) :
                \E j \in 1..Len(jobs) :
                    jobs[j].st # "todo" /\ loaded.result.records[i] = Written(j)

====
